---- MODULE Spec2Model ----
(***************************************************************************)
(* Model of the fixed_width codec: the serde Deserializer of               *)
(* fixed_width/src/de.rs driven by destination types, the field tree       *)
(* (FieldSet) it walks, the write path that the integration tests of       *)
(* fixed_width_derive exercise, and the derive macro of fixed_width_derive *)
(* that turns the attributes of a struct into a field tree.                *)
(*                                                                         *)
(* Bytes are naturals.  Text is UTF-8: a str is the byte sequence that     *)
(* encodes it, so s.len() is a byte count, as in Rust.                     *)
(***************************************************************************)
EXTENDS Integers, Sequences, FiniteSets, TLC

VARIABLES
    input,      \* Deserializer.input: the record buffer, a sequence of bytes
    tree,       \* the FieldSet handed to Deserializer::new / Serializer::new
    fields,     \* Deserializer.fields: the nodes the cursor has not yet yielded
    ret,        \* the Result the last call returned
    req,        \* the last call made: destination type (read) or value (write)
    sfields,    \* Serializer.fields: the leaves the write cursor has not yet yielded
    wr,         \* the bytes written to the sink so far
    ast         \* the DeriveInput handed to #[derive(FixedWidth)]

vars == <<input, tree, fields, ret, req, sfields, wr, ast>>

----------------------------------------------------------------------------
(* Bounds of the model *)

MaxLen == 3        \* longest record buffer
MaxPos == 3        \* largest range end a leaf declares
MaxFields == 3     \* most leaves in a field tree
MaxStyled == 2     \* most leaves in a tree whose leaves vary in padding and justification
MaxMembers == 2    \* most fields of a struct that derives FixedWidth

(* The byte alphabet: ' ', '0', '1', 'a', and the two bytes of U+00E9. *)
Bytes == {32, 48, 49, 97, 195, 169}

SP == 32           \* ' '
ZERO == 48         \* '0'
DOT == 46          \* '.'

(* No struct is being derived. *)
NoAst == [data |-> "None", fields |-> <<>>]

----------------------------------------------------------------------------
(* Results *)

Ok(v) == [ok |-> TRUE, v |-> v]
Err(e) == [ok |-> FALSE, e |-> e]

(* What a Deserializer method hands back: its Result and the cursor it leaves. *)
R(res, f) == [ret |-> res, fields |-> f]

----------------------------------------------------------------------------
(* Field model *)

Range(s, e) == [start |-> s, end |-> e]

(* FieldSet::new_field(range): no name, padded with ' ', justified left. *)
new_field(r) ==
    [t |-> "Item",
     conf |-> [name |-> <<>>, range |-> r, pad_with |-> SP, justify |-> "Left"]]

name(f, n) == [f EXCEPT !.conf.name = <<n>>]
pad_with(f, c) == [f EXCEPT !.conf.pad_with = c]
justify(f, j) == [f EXCEPT !.conf.justify = j]

(* field_seq![...] *)
field_seq(s) == [t |-> "Seq", seq |-> s]

(* FieldSet::into_iter: the children of a Seq in order; an Item yields itself. *)
into_iter(fs) == IF fs.t = "Seq" THEN fs.seq ELSE <<fs>>

(* FieldSet::flatten: the leaf descriptors of a tree in document order. *)
RECURSIVE flatten(_)
RECURSIVE FlattenAll(_)
flatten(fs) == IF fs.t = "Item" THEN <<fs.conf>> ELSE FlattenAll(fs.seq)
FlattenAll(s) == IF s = <<>> THEN <<>> ELSE flatten(Head(s)) \o FlattenAll(Tail(s))

----------------------------------------------------------------------------
(* Text *)

(* char::is_whitespace on the one-byte code points. *)
IsWhitespace(b) == b \in {9, 10, 11, 12, 13, 32}

(* Length in bytes of the UTF-8 sequence a lead byte opens; 0 if it opens none. *)
Utf8Width(b) ==
    IF b < 128 THEN 1
    ELSE IF b >= 194 /\ b <= 223 THEN 2
    ELSE IF b >= 224 /\ b <= 239 THEN 3
    ELSE IF b >= 240 /\ b <= 244 THEN 4
    ELSE 0

IsContinuation(b) == b >= 128 /\ b <= 191

RECURSIVE ValidUtf8From(_, _)
ValidUtf8From(bs, i) ==
    IF i > Len(bs) THEN TRUE
    ELSE LET w == Utf8Width(bs[i]) IN
         /\ w > 0
         /\ i + w - 1 <= Len(bs)
         /\ \A j \in (i + 1)..(i + w - 1) : IsContinuation(bs[j])
         /\ ValidUtf8From(bs, i + w)

(* str::from_utf8(bs).is_ok() *)
from_utf8_ok(bs) == ValidUtf8From(bs, 1)

RECURSIVE TrimStart(_)
TrimStart(s) ==
    IF s # <<>> /\ IsWhitespace(Head(s)) THEN TrimStart(Tail(s)) ELSE s

RECURSIVE TrimEnd(_)
TrimEnd(s) ==
    IF s # <<>> /\ IsWhitespace(s[Len(s)])
    THEN TrimEnd(SubSeq(s, 1, Len(s) - 1))
    ELSE s

(* A trim that leaves the whitespace after the text in place. *)
trim_start_only(s) == TrimStart(s)

(* str::trim *)
trim(s) == TrimEnd(TrimStart(s))

(* s.chars().next() of a non-empty str: the bytes of its first character. *)
first_char(s) == SubSeq(s, 1, Utf8Width(s[1]))

IsDigit(b) == b >= 48 /\ b <= 57

RECURSIVE DigitsValue(_)
DigitsValue(s) ==
    IF s = <<>> THEN 0
    ELSE 10 * DigitsValue(SubSeq(s, 1, Len(s) - 1)) + (s[Len(s)] - 48)

(* str::parse::<u8>: an optional '+', then one or more digits, value <= 255. *)
parse_u8(s) ==
    LET d == IF s # <<>> /\ s[1] = 43 THEN Tail(s) ELSE s IN
    IF d # <<>> /\ (\A i \in 1..Len(d) : IsDigit(d[i])) /\ DigitsValue(d) <= 255
    THEN Ok(DigitsValue(d))
    ELSE Err("ParseIntError")

----------------------------------------------------------------------------
(* Deserializer: reading the next field *)

(* <[u8]>::get(range) *)
InBounds(r, inp) == r.start <= r.end /\ r.end <= Len(inp)
Slice(r, inp) == SubSeq(inp, r.start + 1, r.end)

(* A read that clamps the range to the buffer instead of refusing it. *)
peek_bytes_clamped(f, inp) ==
    IF f = <<>> THEN Err("UnexpectedEndOfRecord")
    ELSE IF Head(f).t # "Item" THEN Err("UnexpectedEndOfRecord")
    ELSE Ok(SubSeq(inp, Head(f).conf.range.start + 1,
                   IF Head(f).conf.range.end <= Len(inp)
                   THEN Head(f).conf.range.end ELSE Len(inp)))

peek_bytes(f, inp) ==
    IF f = <<>> THEN Err("UnexpectedEndOfRecord")
    ELSE IF Head(f).t # "Item" THEN Err("UnexpectedEndOfRecord")
    ELSE IF InBounds(Head(f).conf.range, inp)
         THEN Ok(Slice(Head(f).conf.range, inp))
         ELSE Err("UnexpectedEndOfRecord")

(* A read that slices the next leaf but leaves it on the cursor. *)
next_bytes_no_advance(f, inp) == R(peek_bytes(f, inp), f)

(* fields.next() comes first: the node is taken even when the call fails. *)
next_bytes(f, inp) ==
    IF f = <<>> THEN R(Err("UnexpectedEndOfRecord"), f)
    ELSE R(peek_bytes(f, inp), Tail(f))

str_of(b) ==
    IF ~b.ok THEN b
    ELSE IF from_utf8_ok(b.v) THEN Ok(trim(b.v)) ELSE Err("InvalidUtf8")

peek_str(f, inp) == str_of(peek_bytes(f, inp))

next_str(f, inp) ==
    LET b == next_bytes(f, inp) IN R(str_of(b.ret), b.fields)

skip_field(f) == IF f = <<>> THEN f ELSE Tail(f)

done(f) == f = <<>>

----------------------------------------------------------------------------
(* Deserializer: the scalar methods, each with the visitor of its own type *)

(* A boolean read that measures the field in characters, not bytes. *)
deserialize_bool_by_chars(f, inp) ==
    LET s == next_str(f, inp) IN
    IF ~s.ret.ok THEN s
    ELSE IF s.ret.v # <<>> /\ Len(s.ret.v) > Utf8Width(s.ret.v[1]) THEN R(Err("Message"), s.fields)
    ELSE LET c == IF s.ret.v = <<>> THEN <<ZERO>> ELSE first_char(s.ret.v) IN
         R(Ok([k |-> "bool", b |-> (c # <<ZERO>>)]), s.fields)

deserialize_bool(f, inp) ==
    LET s == next_str(f, inp) IN
    IF ~s.ret.ok THEN s
    ELSE IF Len(s.ret.v) > 1 THEN R(Err("Message"), s.fields)
    ELSE LET c == IF s.ret.v = <<>> THEN <<ZERO>> ELSE first_char(s.ret.v) IN
         R(Ok([k |-> "bool", b |-> (c # <<ZERO>>)]), s.fields)

deserialize_u8(f, inp) ==
    LET s == next_str(f, inp) IN
    IF ~s.ret.ok THEN s
    ELSE LET i == parse_u8(s.ret.v) IN
         IF i.ok THEN R(Ok([k |-> "u8", n |-> i.v]), s.fields)
         ELSE R(i, s.fields)

deserialize_string(f, inp) ==
    LET s == next_str(f, inp) IN
    IF ~s.ret.ok THEN s
    ELSE R(Ok([k |-> "str", s |-> s.ret.v]), s.fields)

deserialize_char(f, inp) ==
    LET s == next_str(f, inp) IN
    IF ~s.ret.ok THEN s
    ELSE IF Len(s.ret.v) > 1 THEN R(Err("Message"), s.fields)
    ELSE LET c == IF s.ret.v = <<>> THEN <<SP>> ELSE first_char(s.ret.v) IN
         R(Ok([k |-> "char", c |-> c]), s.fields)

deserialize_byte_buf(f, inp) ==
    LET b == next_bytes(f, inp) IN
    IF ~b.ret.ok THEN b
    ELSE R(Ok([k |-> "bytes", s |-> b.ret.v]), b.fields)

(* A unit read that insists on a readable field. *)
deserialize_unit_checked(f, inp) ==
    LET s == next_str(f, inp) IN
    IF ~s.ret.ok THEN s ELSE R(Ok([k |-> "unit"]), s.fields)

(* skip_field, then visit_unit: the content of the field is never looked at. *)
deserialize_unit(f, inp) == R(Ok([k |-> "unit"]), skip_field(f))

----------------------------------------------------------------------------
(* Deserializer: composite destinations.  T::deserialize(&mut de) for a    *)
(* destination type T is Deserialize(T, de.fields, de.input); the visitors *)
(* are the ones serde supplies for T.                                      *)

RECURSIVE Deserialize(_, _, _)

(* An optional read that reports every readable leaf present. *)
deserialize_option_always_some(ty, f, inp) ==
    LET p == peek_str(f, inp) IN
    IF ~p.ok THEN R(p, f)
    ELSE LET r == Deserialize(ty.of, f, inp) IN
         IF r.ret.ok THEN R(Ok([k |-> "some", v |-> r.ret.v]), r.fields) ELSE r

(* An optional read that reports a blank leaf absent but leaves it on the cursor. *)
deserialize_option_no_skip(ty, f, inp) ==
    LET p == peek_str(f, inp) IN
    IF ~p.ok THEN R(p, f)
    ELSE IF p.v = <<>> THEN R(Ok([k |-> "none"]), f)
    ELSE LET r == Deserialize(ty.of, f, inp) IN
         IF r.ret.ok THEN R(Ok([k |-> "some", v |-> r.ret.v]), r.fields) ELSE r

(* Peeks the next leaf as text; blank: skip it and visit_none, otherwise
   visit_some(self), which lets the wrapped type read from this cursor. *)
deserialize_option(ty, f, inp) ==
    LET p == peek_str(f, inp) IN
    IF ~p.ok THEN R(p, f)
    ELSE IF p.v = <<>> THEN R(Ok([k |-> "none"]), skip_field(f))
    ELSE LET r == Deserialize(ty.of, f, inp) IN
         IF r.ret.ok THEN R(Ok([k |-> "some", v |-> r.ret.v]), r.fields) ELSE r

(* An element read that splices the children of a Seq into the cursor of
   its parent: what the element leaves of them is read by the next one. *)
next_element_seed_spliced(ty, f, inp) ==
    IF f = <<>> THEN R(Ok(<<>>), f)
    ELSE LET r == Deserialize(ty, into_iter(Head(f)) \o Tail(f), inp) IN
         IF r.ret.ok THEN R(Ok(<<r.ret.v>>), r.fields) ELSE r

(* An element read that hands every element the cursor of its parent,
   whatever the next node is. *)
next_element_seed_flat(ty, f, inp) ==
    IF f = <<>> THEN R(Ok(<<>>), f)
    ELSE LET r == Deserialize(ty, f, inp) IN
         IF r.ret.ok THEN R(Ok(<<r.ret.v>>), r.fields) ELSE r

(* SeqAccess::next_element_seed.  The Option it returns is a sequence of
   length 0 or 1.  A Seq node is taken from the cursor and read through a
   Deserializer of its own, which is dropped when the element is done. *)
next_element_seed(ty, f, inp) ==
    IF f = <<>> THEN R(Ok(<<>>), f)
    ELSE IF Head(f).t = "Item"
    THEN LET r == Deserialize(ty, f, inp) IN
         IF r.ret.ok THEN R(Ok(<<r.ret.v>>), r.fields) ELSE r
    ELSE LET r == Deserialize(ty, into_iter(Head(f)), inp) IN
         IF r.ret.ok THEN R(Ok(<<r.ret.v>>), Tail(f)) ELSE R(r.ret, Tail(f))

(* visit_seq of a struct, tuple or array with element types tys: one
   next_element per member; a missing member is Error::invalid_length. *)
RECURSIVE VisitMembers(_, _, _, _)
VisitMembers(tys, acc, f, inp) ==
    IF tys = <<>> THEN R(Ok([k |-> "struct", fs |-> acc]), f)
    ELSE LET e == next_element_seed(Head(tys), f, inp) IN
         IF ~e.ret.ok THEN e
         ELSE IF e.ret.v = <<>> THEN R(Err("Message"), e.fields)
         ELSE VisitMembers(Tail(tys), acc \o e.ret.v, e.fields, inp)

(* A visit that puts a unit in the place of a member that failed and
   carries on with the next member. *)
RECURSIVE VisitMembersLenient(_, _, _, _)
VisitMembersLenient(tys, acc, f, inp) ==
    IF tys = <<>> THEN R(Ok([k |-> "struct", fs |-> acc]), f)
    ELSE LET e == next_element_seed(Head(tys), f, inp) IN
         IF ~e.ret.ok
         THEN VisitMembersLenient(Tail(tys), Append(acc, [k |-> "unit"]), e.fields, inp)
         ELSE IF e.ret.v = <<>> THEN R(Err("Message"), e.fields)
         ELSE VisitMembersLenient(Tail(tys), acc \o e.ret.v, e.fields, inp)

deserialize_struct_lenient(ty, f, inp) == VisitMembersLenient(ty.fs, <<>>, f, inp)

deserialize_struct(ty, f, inp) == VisitMembers(ty.fs, <<>>, f, inp)

(* visit_seq of Vec<T>: next_element until it returns None. *)
RECURSIVE VisitElements(_, _, _, _)
VisitElements(ty, acc, f, inp) ==
    LET e == next_element_seed(ty, f, inp) IN
    IF ~e.ret.ok THEN e
    ELSE IF e.ret.v = <<>> THEN R(Ok([k |-> "seq", es |-> acc]), e.fields)
    ELSE VisitElements(ty, acc \o e.ret.v, e.fields, inp)

(* A sequence that stops after its first element. *)
deserialize_seq_one(ty, f, inp) ==
    LET e == next_element_seed(ty.of, f, inp) IN
    IF ~e.ret.ok THEN e ELSE R(Ok([k |-> "seq", es |-> e.ret.v]), e.fields)

deserialize_seq(ty, f, inp) == VisitElements(ty.of, <<>>, f, inp)

(* format!("{}..{}", f.range.start, f.range.end) *)
RangeText(r) == ToString(r.start) \o ".." \o ToString(r.end)

(* A key that is always the text of the range, declared name or not. *)
next_key_seed_range_only(f, inp) ==
    IF done(f) THEN R(Ok(<<>>), f)
    ELSE IF Head(f).t = "Item" THEN R(Ok(<<RangeText(Head(f).conf.range)>>), f)
    ELSE R(Err("UnexpectedEndOfRecord"), f)

(* MapAccess::next_key_seed with a String key: the name of the next leaf,
   or the text of its range; the cursor does not move. *)
next_key_seed(f, inp) ==
    IF done(f) THEN R(Ok(<<>>), f)
    ELSE IF Head(f).t = "Item"
    THEN R(Ok(<<IF Head(f).conf.name # <<>>
                THEN Head(f).conf.name[1]
                ELSE RangeText(Head(f).conf.range)>>), f)
    ELSE R(Err("UnexpectedEndOfRecord"), f)

next_value_seed(ty, f, inp) == Deserialize(ty, f, inp)

(* visit_map of a map with String keys: entries in the order produced. *)
RECURSIVE VisitEntries(_, _, _, _)
VisitEntries(ty, acc, f, inp) ==
    LET key == next_key_seed(f, inp) IN
    IF ~key.ret.ok THEN key
    ELSE IF key.ret.v = <<>> THEN R(Ok([k |-> "map", entries |-> acc]), f)
    ELSE LET val == next_value_seed(ty, f, inp) IN
         IF ~val.ret.ok THEN val
         ELSE VisitEntries(ty, Append(acc, [key |-> key.ret.v[1], value |-> val.ret.v]),
                           val.fields, inp)

deserialize_map(ty, f, inp) == VisitEntries(ty.of, <<>>, f, inp)

(* de::Error::invalid_type is not overridden: serde formats the message
   and hands it to Error::custom, which makes a DeserializeError::Message. *)
invalid_type == Err("Message")

(* de::Error::unknown_variant, by the same route. *)
unknown_variant == Err("Message")

(* ASCII lower case of a byte. *)
Lower(b) == IF b \in 65..90 THEN b + 32 ELSE b

(* The identifier visitor of a derived enum over the text read for the tag:
   the variant whose name equals the text, or unknown_variant. *)
visit_str(ty, s) ==
    IF ~s.ret.ok THEN s
    ELSE IF \E i \in 1..Len(ty.variants) : ty.variants[i].tag = s.ret.v
    THEN R(Ok(ty.variants[CHOOSE i \in 1..Len(ty.variants) : ty.variants[i].tag = s.ret.v]),
           s.fields)
    ELSE R(unknown_variant, s.fields)

(* An identifier visitor that ignores the case of the letters. *)
visit_str_ignore_case(ty, s) ==
    IF ~s.ret.ok THEN s
    ELSE LET fold(t) == [i \in 1..Len(t) |-> Lower(t[i])] IN
         IF \E i \in 1..Len(ty.variants) : fold(ty.variants[i].tag) = fold(s.ret.v)
         THEN R(Ok(ty.variants[CHOOSE i \in 1..Len(ty.variants) :
                                   fold(ty.variants[i].tag) = fold(s.ret.v)]), s.fields)
         ELSE R(unknown_variant, s.fields)

(* A tag match that ignores the case of the letters. *)
variant_seed_ignore_case(ty, f, inp) == visit_str_ignore_case(ty, next_str(f, inp))

(* EnumAccess::variant_seed: the next leaf as trimmed text, handed to the
   identifier visitor of the enum. *)
variant_seed(ty, f, inp) == visit_str(ty, next_str(f, inp))

(* VariantAccess: only a unit variant has a value. *)
unit_variant == Ok([k |-> "unit"])
newtype_variant_seed == invalid_type
tuple_variant == invalid_type
struct_variant == invalid_type

(* What the VariantAccess returns for the content of a variant. *)
VariantContent(shape) ==
    CASE shape = "unit" -> unit_variant
      [] shape = "newtype" -> newtype_variant_seed
      [] shape = "tuple" -> tuple_variant
      [] shape = "struct" -> struct_variant

(* visit_enum of a derived enum over the selected variant v: ask the
   VariantAccess for the content the shape of the variant calls for. *)
visit_enum(v) ==
    IF ~v.ret.ok THEN v
    ELSE IF VariantContent(v.ret.v.shape).ok
    THEN R(Ok([k |-> "enum", tag |-> v.ret.v.tag]), v.fields)
    ELSE R(VariantContent(v.ret.v.shape), v.fields)

deserialize_enum(ty, f, inp) == visit_enum(variant_seed(ty, f, inp))

(* A self-describing read that falls back on the bytes of the next leaf. *)
deserialize_any_as_bytes(f, inp) == deserialize_byte_buf(f, inp)

(* Not supported: the cursor is not touched. *)
deserialize_any(f, inp) == R(Err("WontImplement"), f)

deserialize_ignored_any(f, inp) == R(Err("WontImplement"), f)

Deserialize(ty, f, inp) ==
    CASE ty.k = "bool" -> deserialize_bool(f, inp)
      [] ty.k = "u8" -> deserialize_u8(f, inp)
      [] ty.k = "str" -> deserialize_string(f, inp)
      [] ty.k = "char" -> deserialize_char(f, inp)
      [] ty.k = "bytes" -> deserialize_byte_buf(f, inp)
      [] ty.k = "unit" -> deserialize_unit(f, inp)
      [] ty.k = "opt" -> deserialize_option(ty, f, inp)
      [] ty.k = "struct" -> deserialize_struct(ty, f, inp)
      [] ty.k = "seq" -> deserialize_seq(ty, f, inp)
      [] ty.k = "map" -> deserialize_map(ty, f, inp)
      [] ty.k = "enum" -> deserialize_enum(ty, f, inp)
      [] ty.k = "any" -> deserialize_any(f, inp)
      [] ty.k = "ignored_any" -> deserialize_ignored_any(f, inp)

(* from_bytes_with_fields::<T>(bytes, fields) *)
from_bytes_with_fields(ty, bytes, fs) == Deserialize(ty, into_iter(fs), bytes).ret

----------------------------------------------------------------------------
(* The inputs the model draws: record buffers, field trees, destinations *)

BuffersOver(alphabet) == UNION {[1..n -> alphabet] : n \in 0..MaxLen}

LeafRanges == {r \in [start : 0..MaxPos, end : 0..MaxPos] : r.start < r.end}

(* The ranges of n leaves laid out left to right, gaps allowed. *)
Layouts(n) ==
    {l \in [1..n -> LeafRanges] : \A i \in 1..(n - 1) : l[i].end <= l[i + 1].start}

(* The layouts that tile the record from byte 0 without a gap. *)
TiledLayouts(n) ==
    {l \in Layouts(n) : l[1].start = 0 /\ \A i \in 1..(n - 1) : l[i].end = l[i + 1].start}

(* How n leaves nest: "I" a leaf of the top level, "G" the first leaf of a
   nested Seq, "g" a further leaf of the Seq opened before it. *)
Shapes(n) ==
    {sh \in [1..n -> {"I", "G", "g"}] :
        /\ sh[1] # "g"
        /\ \A i \in 2..n : sh[i] = "g" => sh[i - 1] \in {"G", "g"}}

GroupLen(sh) ==
    CHOOSE n \in 1..Len(sh) :
        /\ \A i \in 2..n : sh[i] = "g"
        /\ n = Len(sh) \/ sh[n + 1] # "g"

RECURSIVE BuildNodes(_, _)
BuildNodes(ls, sh) ==
    IF ls = <<>> THEN <<>>
    ELSE IF sh[1] = "I" THEN <<ls[1]>> \o BuildNodes(Tail(ls), Tail(sh))
    ELSE LET n == GroupLen(sh) IN
         <<field_seq(SubSeq(ls, 1, n))>>
             \o BuildNodes(SubSeq(ls, n + 1, Len(ls)), SubSeq(sh, n + 1, Len(sh)))

FieldNames == <<"numbers", "letters", "digits", "marks">>

(* Flat trees of unnamed leaves, and a lone Item as the whole tree. *)
FlatTrees ==
    UNION {{field_seq([i \in 1..n |-> new_field(l[i])]) : l \in Layouts(n)} :
               n \in 1..MaxFields}

ItemTrees == {new_field(r) : r \in LeafRanges}

LeafTrees == FlatTrees \cup ItemTrees

(* Trees of unnamed leaves in every nesting, and flat trees whose leaves
   carry a name or not. *)
NestedTreesOf(n) ==
    {field_seq(BuildNodes([i \in 1..n |-> new_field(l[i])], sh)) :
         l \in TiledLayouts(n), sh \in Shapes(n)}

NestedTrees == UNION {NestedTreesOf(n) : n \in 1..MaxFields}

NamedTrees ==
    UNION {{field_seq([i \in 1..n |-> IF nm[i] THEN name(new_field(l[i]), FieldNames[i])
                                               ELSE new_field(l[i])]) :
                l \in TiledLayouts(n), nm \in [1..n -> BOOLEAN]} : n \in 1..MaxFields}

ReadTrees == NestedTrees \cup NamedTrees

TBool == [k |-> "bool"]
TU8 == [k |-> "u8"]
TStr == [k |-> "str"]
TChar == [k |-> "char"]
TBytes == [k |-> "bytes"]
TUnit == [k |-> "unit"]
TOpt(ty) == [k |-> "opt", of |-> ty]
TStruct(tys) == [k |-> "struct", fs |-> tys]
TSeq(ty) == [k |-> "seq", of |-> ty]
TMap(ty) == [k |-> "map", of |-> ty]

Scalars == {TBool, TU8, TStr, TChar, TBytes, TUnit}

MemberTys == {TStr, TU8, TUnit, TOpt(TStr), TStruct(<<TStr, TStr>>)}

StructTys == {TStruct(<<a>>) : a \in MemberTys} \cup {TStruct(<<a, b>>) : a, b \in MemberTys}

SeqTys ==
    {TSeq(ty) : ty \in {TStr, TU8, TOpt(TStr), TSeq(TStr), TOpt(TStruct(<<TStr, TStr>>)),
                        TStruct(<<TStr>>), TOpt(TStruct(<<TStr>>))}}

MapTys == {TMap(TStr), TMap(TU8)}

(* Enum destinations: the variants in declaration order, each with the
   bytes of its name and the shape of its content. *)
Variant(tag, shape) == [tag |-> tag, shape |-> shape]
TEnum(vs) == [k |-> "enum", variants |-> vs]
TAny == [k |-> "any"]
TIgnoredAny == [k |-> "ignored_any"]

(* enum { a, b, ab }, enum { A, a(u8) }, enum { a, b(u8), ab(u8, u8), ba { x: u8 } } *)
EnumTys ==
    {TEnum(<<Variant(<<97>>, "unit"), Variant(<<98>>, "unit"), Variant(<<97, 98>>, "unit")>>),
     TEnum(<<Variant(<<65>>, "unit"), Variant(<<97>>, "newtype")>>),
     TEnum(<<Variant(<<97>>, "unit"), Variant(<<98>>, "newtype"),
             Variant(<<97, 98>>, "tuple"), Variant(<<98, 97>>, "struct")>>)}

NoReq == [k |-> "none"]

----------------------------------------------------------------------------
(* The read path as a state machine: a Deserializer is built over a buffer *)
(* and a tree, and destinations are deserialized from it one after another *)

NewDeserializer(bufs, trees) ==
    /\ input \in bufs
    /\ tree \in trees
    /\ fields = into_iter(tree)
    /\ ret = Ok([k |-> "unit"])
    /\ req = NoReq
    /\ sfields = <<>>
    /\ wr = <<>>
    /\ ast = NoAst

Call(ty, r) ==
    /\ req' = ty
    /\ ret' = r.ret
    /\ fields' = r.fields
    /\ UNCHANGED <<input, tree, sfields, wr, ast>>

DeserializeBool == Call(TBool, deserialize_bool(fields, input))
DeserializeU8 == Call(TU8, deserialize_u8(fields, input))
DeserializeString == Call(TStr, deserialize_string(fields, input))
DeserializeChar == Call(TChar, deserialize_char(fields, input))
DeserializeByteBuf == Call(TBytes, deserialize_byte_buf(fields, input))
DeserializeUnit == Call(TUnit, deserialize_unit(fields, input))
DeserializeOption == \E ty \in Scalars : Call(TOpt(ty), deserialize_option(TOpt(ty), fields, input))
DeserializeStruct == \E ty \in StructTys : Call(ty, deserialize_struct(ty, fields, input))
DeserializeSeq == \E ty \in SeqTys : Call(ty, deserialize_seq(ty, fields, input))
DeserializeMap == \E ty \in MapTys : Call(ty, deserialize_map(ty, fields, input))
DeserializeEnum == \E ty \in EnumTys : Call(ty, deserialize_enum(ty, fields, input))
DeserializeAny == Call(TAny, deserialize_any(fields, input))
DeserializeIgnoredAny == Call(TIgnoredAny, deserialize_ignored_any(fields, input))

(* Spec: scalar and optional destinations read leaf by leaf from flat trees,
   over every byte of the alphabet. *)
Init == NewDeserializer(BuffersOver(Bytes), LeafTrees)

Next ==
    \/ DeserializeBool
    \/ DeserializeU8
    \/ DeserializeString
    \/ DeserializeChar
    \/ DeserializeByteBuf
    \/ DeserializeUnit
    \/ DeserializeOption
    \/ DeserializeAny
    \/ DeserializeIgnoredAny

Spec == Init /\ [][Next]_vars

(* SpecTree: composite destinations over nested and named trees; the bytes
   are a blank, a digit and a letter. *)
InitTree == NewDeserializer(BuffersOver({32, 49, 97}), ReadTrees)

NextTree ==
    \/ DeserializeStruct
    \/ DeserializeSeq
    \/ DeserializeMap
    \/ DeserializeOption

SpecTree == InitTree /\ [][NextTree]_vars

(* SpecEnum: enum destinations read from flat trees; the bytes are a blank
   and letters in both cases. *)
EnumBytes == {32, 65, 97, 98}

InitEnum == NewDeserializer(BuffersOver(EnumBytes), LeafTrees)

NextEnum == DeserializeEnum

SpecEnum == InitEnum /\ [][NextEnum]_vars

----------------------------------------------------------------------------
(* The write path.  Its layout is the one test_serialize pins down: the    *)
(* Serializer walks the flattened leaves in order and appends one field of *)
(* the leaf's width per value to the sink.                                 *)

(* What a Serializer method hands back: its Result, the cursor and the sink. *)
W(res, sf, w) == [ret |-> res, sfields |-> sf, wr |-> w]

width(conf) == conf.range.end - conf.range.start

Repeat(c, n) == [i \in 1..n |-> c]

(* A field that puts the padding on the side of the justification. *)
pad_field_swapped(bytes, conf) ==
    LET content == IF Len(bytes) > width(conf) THEN SubSeq(bytes, 1, width(conf)) ELSE bytes
        padding == Repeat(conf.pad_with, width(conf) - Len(content)) IN
    IF conf.justify = "Left" THEN padding \o content ELSE content \o padding

(* A field that keeps oversized content whole. *)
pad_field_no_truncate(bytes, conf) ==
    LET padding == Repeat(conf.pad_with,
                          IF Len(bytes) > width(conf) THEN 0 ELSE width(conf) - Len(bytes)) IN
    IF conf.justify = "Left" THEN bytes \o padding ELSE padding \o bytes

(* The bytes of one field: the content cut to the width, then padded with
   pad_with on the right (Left) or on the left (Right). *)
pad_field(bytes, conf) ==
    LET content == IF Len(bytes) > width(conf) THEN SubSeq(bytes, 1, width(conf)) ELSE bytes
        padding == Repeat(conf.pad_with, width(conf) - Len(content)) IN
    IF conf.justify = "Left" THEN content \o padding ELSE padding \o content

(* Takes the next leaf and appends its field to the sink. *)
serialize_bytes(bytes, sf, w) ==
    IF sf = <<>> THEN W(Err("UnexpectedEndOfRecord"), sf, w)
    ELSE W(Ok([k |-> "unit"]), Tail(sf), w \o pad_field(bytes, Head(sf)))

serialize_str(v, sf, w) == serialize_bytes(v.s, sf, w)

(* Standard formatting of an unsigned integer. *)
RECURSIVE Decimal(_)
Decimal(n) == IF n < 10 THEN <<48 + n>> ELSE Decimal(n \div 10) \o <<48 + (n % 10)>>

serialize_u8(v, sf, w) == serialize_bytes(Decimal(v.n), sf, w)

(* An absent value that writes nothing and leaves the leaf on the cursor. *)
serialize_none_skipping(sf, w) ==
    IF sf = <<>> THEN W(Err("UnexpectedEndOfRecord"), sf, w)
    ELSE W(Ok([k |-> "unit"]), sf, w)

(* An absent value is a field with no content. *)
serialize_none(sf, w) == serialize_bytes(<<>>, sf, w)

RECURSIVE Serialize(_, _, _)

(* A present value is written by the rule of the value it wraps. *)
serialize_some(v, sf, w) == Serialize(v.v, sf, w)

(* The members of a struct, tuple or sequence one after another; the first
   failure ends the call. *)
RECURSIVE SerializeMembers(_, _, _)
SerializeMembers(vs, sf, w) ==
    IF vs = <<>> THEN W(Ok([k |-> "unit"]), sf, w)
    ELSE LET m == Serialize(Head(vs), sf, w) IN
         IF ~m.ret.ok THEN m ELSE SerializeMembers(Tail(vs), m.sfields, m.wr)

serialize_struct(v, sf, w) == SerializeMembers(v.fs, sf, w)

Serialize(v, sf, w) ==
    CASE v.k = "str" -> serialize_str(v, sf, w)
      [] v.k = "u8" -> serialize_u8(v, sf, w)
      [] v.k = "none" -> serialize_none(sf, w)
      [] v.k = "some" -> serialize_some(v, sf, w)
      [] v.k = "struct" -> serialize_struct(v, sf, w)

(* Flat trees whose leaves take every padding and justification. *)
PadChars == {SP, ZERO}
Justifications == {"Left", "Right"}

StyledTrees ==
    UNION {{field_seq([i \in 1..n |-> justify(pad_with(new_field(l[i]), p[i]), j[i])]) :
                l \in Layouts(n), p \in [1..n -> PadChars], j \in [1..n -> Justifications]} :
               n \in 1..MaxStyled}

WriteTrees == StyledTrees \cup UNION {NestedTreesOf(n) : n \in 1..MaxStyled}

VStr(s) == [k |-> "str", s |-> s]
VU8(n) == [k |-> "u8", n |-> n]
VNone == [k |-> "none"]
VSome(v) == [k |-> "some", v |-> v]
VStruct(vs) == [k |-> "struct", fs |-> vs]

StrValues == {VStr(s) : s \in BuffersOver({49, 97})}
U8Values == {VU8(n) : n \in {7, 234}}
SomeValues == {VSome(VStr(<<97>>)), VSome(VStr(<<97, 49, 97>>)), VSome(VU8(7))}

(* SpecSer: a Serializer is built over a tree and an empty sink, and values
   are serialized into it one after another. *)
InitSer ==
    /\ input = <<>>
    /\ tree \in WriteTrees
    /\ fields = <<>>
    /\ ret = Ok([k |-> "unit"])
    /\ req = NoReq
    /\ sfields = flatten(tree)
    /\ wr = <<>>
    /\ ast = NoAst

Write(v, r) ==
    /\ req' = v
    /\ ret' = r.ret
    /\ sfields' = r.sfields
    /\ wr' = r.wr
    /\ UNCHANGED <<input, tree, fields, ast>>

SerializeStr == \E v \in StrValues : Write(v, serialize_str(v, sfields, wr))
SerializeU8 == \E v \in U8Values : Write(v, serialize_u8(v, sfields, wr))
SerializeNone == Write(VNone, serialize_none(sfields, wr))
SerializeSome == \E v \in SomeValues : Write(v, serialize_some(v, sfields, wr))

NextSer ==
    \/ SerializeStr
    \/ SerializeU8
    \/ SerializeNone
    \/ SerializeSome

SpecSer == InitSer /\ [][NextSer]_vars

(* The destination that mirrors a tree: leafTy for every leaf, a struct
   for every Seq. *)
RECURSIVE TypeFor(_, _)
TypeFor(fs, leafTy) ==
    IF fs.t = "Item" THEN leafTy
    ELSE TStruct([i \in 1..Len(fs.seq) |-> TypeFor(fs.seq[i], leafTy)])

(* SpecRT: a record is decoded into the destination that mirrors its tree,
   and the decoded value is encoded with the same tree into an empty sink. *)
InitRT ==
    /\ input \in BuffersOver({32, 48, 97})
    /\ tree \in WriteTrees
    /\ fields = into_iter(tree)
    /\ ret = Ok([k |-> "unit"])
    /\ req = NoReq
    /\ sfields = flatten(tree)
    /\ wr = <<>>
    /\ ast = NoAst

FromBytesWithFields ==
    /\ req = NoReq
    /\ \E leafTy \in {TStr, TOpt(TStr)} :
          Call(TypeFor(tree, leafTy), Deserialize(TypeFor(tree, leafTy), fields, input))

ToWriterWithFields ==
    /\ req.k = "struct"
    /\ ret.ok
    /\ LET r == Serialize(ret.v, sfields, wr) IN
          /\ req' = [k |-> "to_writer", v |-> ret.v]
          /\ ret' = r.ret
          /\ sfields' = r.sfields
          /\ wr' = r.wr
    /\ UNCHANGED <<input, tree, fields, ast>>

NextRT ==
    \/ FromBytesWithFields
    \/ ToWriterWithFields

SpecRT == InitRT /\ [][NextRT]_vars

----------------------------------------------------------------------------
(* Vocabulary of the properties *)

UEOR == Err("UnexpectedEndOfRecord")

(* The largest range end any leaf of a tree declares. *)
MaxEnd(fs) ==
    LET ends == {flatten(fs)[i].range.end : i \in 1..Len(flatten(fs))} IN
    CHOOSE m \in ends : \A e \in ends : e <= m

(* The next node of the cursor is a leaf whose range lies in the buffer and
   whose slice is valid text. *)
NextIsLeaf == fields # <<>> /\ Head(fields).t = "Item"
NextLeafReadable ==
    /\ NextIsLeaf
    /\ InBounds(Head(fields).conf.range, input)
    /\ from_utf8_ok(Slice(Head(fields).conf.range, input))

(* The trimmed text of the next leaf. *)
NextText == trim(Slice(Head(fields).conf.range, input))

(* The node the last call took from the cursor of the top level. *)
Taken == into_iter(tree)[Len(into_iter(tree)) - Len(fields)]

(* Number of characters of a valid UTF-8 text. *)
RECURSIVE CharCount(_)
CharCount(s) ==
    IF s = <<>> THEN 0 ELSE 1 + CharCount(SubSeq(s, Utf8Width(s[1]) + 1, Len(s)))

----------------------------------------------------------------------------
(* C1, as stated: whenever the buffer is shorter than the largest range end
   of the tree, decoding a destination from a fresh Deserializer returns
   UnexpectedEndOfRecord. *)
C1_TruncatedAlwaysFails ==
    [][(req = NoReq /\ Len(input) < MaxEnd(tree)) => ret' = UEOR]_vars

(* C1, amended: a boolean, integer, character, string, byte or optional
   destination decoded from a leaf whose range does not lie within the
   buffer returns UnexpectedEndOfRecord and no value, at whatever position
   of the cursor the leaf is read. *)
C1_OutOfBoundsLeafFails ==
    [][(/\ req'.k \in {"bool", "u8", "str", "char", "bytes", "opt"}
        /\ NextIsLeaf
        /\ ~InBounds(Head(fields).conf.range, input))
       => ret' = UEOR]_vars

(* A read of the second leaf failed with UnexpectedEndOfRecord because its
   range ends beyond the buffer, after the first leaf had been taken. *)
C1_Witness ==
    /\ req = TStr
    /\ ret = UEOR
    /\ Len(into_iter(tree)) = 2
    /\ fields = <<>>
    /\ InBounds(into_iter(tree)[1].conf.range, input)
    /\ ~InBounds(Taken.conf.range, input)

(* C3: an optional destination decoded from a readable leaf is absent when
   the trimmed slice is empty and otherwise present with the value the
   wrapped type decodes from that same leaf (or that type's error); either
   way the cursor moves on by exactly one leaf. *)
C3_OptionDecode ==
    [][(req'.k = "opt" /\ NextLeafReadable) =>
        /\ fields' = Tail(fields)
        /\ IF NextText = <<>>
           THEN ret' = Ok([k |-> "none"])
           ELSE LET inner == Deserialize(req'.of, fields, input).ret IN
                IF inner.ok THEN ret' = Ok([k |-> "some", v |-> inner.v])
                ELSE ret' = inner]_vars

(* An optional read found its leaf blank, returned absent, and left the
   following leaf as the next one of the cursor. *)
C3_Witness ==
    /\ req.k = "opt"
    /\ ret = Ok([k |-> "none"])
    /\ Len(into_iter(tree)) = 2
    /\ fields = <<into_iter(tree)[2]>>
    /\ InBounds(Taken.conf.range, input)
    /\ Slice(Taken.conf.range, input) # <<>>

(* C4, as stated: "0" and a blank field decode to false, any other single
   non-blank character to true, more than one character is an error. *)
C4_BoolByCharacters ==
    [][(req'.k = "bool" /\ NextLeafReadable) =>
        /\ NextText \in {<<>>, <<ZERO>>} => ret' = Ok([k |-> "bool", b |-> FALSE])
        /\ (CharCount(NextText) = 1 /\ NextText # <<ZERO>>)
               => ret' = Ok([k |-> "bool", b |-> TRUE])
        /\ CharCount(NextText) > 1 => ~ret'.ok]_vars

(* C4, amended: "0" and a blank field decode to false, any other one-byte
   non-blank character to true; a trimmed text longer than one byte, a
   single multi-byte character included, is an error and yields no boolean. *)
C4_BoolByBytes ==
    [][(req'.k = "bool" /\ NextLeafReadable) =>
        /\ NextText \in {<<>>, <<ZERO>>} => ret' = Ok([k |-> "bool", b |-> FALSE])
        /\ (Len(NextText) = 1 /\ NextText # <<ZERO>>)
               => ret' = Ok([k |-> "bool", b |-> TRUE])
        /\ Len(NextText) > 1 => ret' = Err("Message")]_vars

(* A boolean read refused a field holding the single character U+00E9. *)
C4_Witness ==
    /\ req = TBool
    /\ ret = Err("Message")
    /\ Len(fields) < Len(into_iter(tree))
    /\ InBounds(Taken.conf.range, input)
    /\ trim(Slice(Taken.conf.range, input)) = <<195, 169>>

(* C5: a character destination decoded from a readable leaf is ' ' for a
   blank field, the character itself for a field of exactly one character
   after trimming, and an error for more than one character. *)
C5_CharDecode ==
    [][(req'.k = "char" /\ NextLeafReadable) =>
        /\ NextText = <<>> => ret' = Ok([k |-> "char", c |-> <<SP>>])
        /\ CharCount(NextText) = 1 => ret' = Ok([k |-> "char", c |-> NextText])
        /\ CharCount(NextText) > 1 => ~ret'.ok]_vars

(* C10: decoding a map with string values over a flat tree of readable
   leaves yields one entry per leaf in tree order, keyed by the declared
   name or else by "<start>..<end>", with the trimmed text as value. *)
C10_MapDecode ==
    [][(/\ req' = TMap(TStr)
        /\ \A i \in 1..Len(fields) :
              /\ fields[i].t = "Item"
              /\ InBounds(fields[i].conf.range, input)
              /\ from_utf8_ok(Slice(fields[i].conf.range, input)))
       => /\ fields' = <<>>
          /\ ret' = Ok([k |-> "map",
                        entries |->
                          [i \in 1..Len(fields) |->
                             [key |-> IF fields[i].conf.name # <<>>
                                      THEN fields[i].conf.name[1]
                                      ELSE ToString(fields[i].conf.range.start) \o ".."
                                               \o ToString(fields[i].conf.range.end),
                              value |-> [k |-> "str",
                                         s |-> trim(Slice(fields[i].conf.range, input))]]]])]_vars

(* The tree [0..1 named "numbers", 1..2 named "letters"] over "1a" decoded
   to the map {"numbers": "1", "letters": "a"}. *)
C10_Witness ==
    /\ tree = field_seq(<<name(new_field(Range(0, 1)), "numbers"),
                          name(new_field(Range(1, 2)), "letters")>>)
    /\ input = <<49, 97>>
    /\ req = TMap(TStr)
    /\ ret = Ok([k |-> "map",
                 entries |-> <<[key |-> "numbers", value |-> [k |-> "str", s |-> <<49>>]],
                               [key |-> "letters", value |-> [k |-> "str", s |-> <<97>>]]>>])

----------------------------------------------------------------------------
(* Vocabulary of the write properties *)

(* The leaf the next write takes, and the leaf the last write took. *)
NextConf == Head(sfields)
Written == flatten(tree)[Len(flatten(tree)) - Len(sfields)]

(* Where the write path puts the i-th leaf: after the widths before it. *)
RECURSIVE Offset(_, _)
Offset(confs, i) == IF i = 1 THEN 0 ELSE Offset(confs, i - 1) + width(confs[i - 1])

(* A slice that is its own trimmed text padded by the rule of its leaf. *)
Canonical(sl, conf) ==
    LET pads == [j \in 1..(Len(sl) - Len(trim(sl))) |-> conf.pad_with] IN
    sl = IF conf.justify = "Left" THEN trim(sl) \o pads ELSE pads \o trim(sl)

(* C2, as stated: after decoding a record and encoding the value with the
   same tree, the output equals the record in every byte range of a leaf. *)
C2_RoundTripByRange ==
    (req.k = "to_writer" /\ ret.ok) =>
        \A i \in 1..Len(flatten(tree)) :
            /\ InBounds(flatten(tree)[i].range, wr)
            /\ Slice(flatten(tree)[i].range, wr) = Slice(flatten(tree)[i].range, input)

(* C2, amended: after decoding a record as strings (or optional strings)
   and encoding the value with the same tree, the i-th field of the output,
   which starts after the widths of the leaves before it, equals the
   record's slice for the i-th leaf whenever that slice is its trimmed text
   padded with the leaf's pad character on the side its justification
   leaves free. *)
C2_RoundTripOfCanonicalFields ==
    (req.k = "to_writer" /\ ret.ok) =>
        \A i \in 1..Len(flatten(tree)) :
            LET conf == flatten(tree)[i]
                off == Offset(flatten(tree), i) IN
            (InBounds(conf.range, input) /\ Canonical(Slice(conf.range, input), conf))
                => /\ Len(wr) >= off + width(conf)
                   /\ SubSeq(wr, off + 1, off + width(conf)) = Slice(conf.range, input)

(* A record of two canonical fields, the second padded on the left, was
   decoded and encoded again. *)
C2_Witness ==
    /\ req.k = "to_writer"
    /\ ret.ok
    /\ Len(flatten(tree)) = 2
    /\ \A i \in 1..2 : /\ InBounds(flatten(tree)[i].range, input)
                       /\ Canonical(Slice(flatten(tree)[i].range, input), flatten(tree)[i])
    /\ flatten(tree)[2].justify = "Right"
    /\ trim(Slice(flatten(tree)[2].range, input)) # <<>>
    /\ trim(Slice(flatten(tree)[2].range, input)) # Slice(flatten(tree)[2].range, input)

(* C6: a text shorter than the width of its leaf is written followed by
   pad characters up to the width when the leaf is justified Left, and
   preceded by them when it is justified Right; a leaf built by new_field
   alone pads with spaces on the right. *)
C6_PadAndJustify ==
    [][(req'.k = "str" /\ sfields # <<>> /\ Len(req'.s) < width(NextConf)) =>
        LET n == width(NextConf) - Len(req'.s) IN
        /\ NextConf.justify = "Left"
               => wr' = wr \o req'.s \o [i \in 1..n |-> NextConf.pad_with]
        /\ NextConf.justify = "Right"
               => wr' = wr \o [i \in 1..n |-> NextConf.pad_with] \o req'.s
        /\ NextConf = new_field(NextConf.range).conf
               => wr' = wr \o req'.s \o [i \in 1..n |-> SP]]_vars

(* "a" was written into a leaf of width 2 justified Right and padded with
   '0', giving "0a". *)
C6_Witness ==
    /\ req = VStr(<<97>>)
    /\ Len(sfields) = Len(flatten(tree)) - 1
    /\ Written.justify = "Right"
    /\ Written.pad_with = ZERO
    /\ wr = <<ZERO, 97>>

(* C7: an absent value takes the next leaf and writes a field of the
   leaf's width made of its pad character only; a present value is written
   exactly as the value it wraps. *)
C7_NoneIsPadFilled ==
    [][(sfields # <<>>) =>
        /\ req'.k = "none" =>
              /\ ret'.ok
              /\ sfields' = Tail(sfields)
              /\ wr' = wr \o [i \in 1..width(NextConf) |-> NextConf.pad_with]
        /\ req'.k = "some" =>
              /\ wr' = Serialize(req'.v, sfields, wr).wr
              /\ sfields' = Tail(sfields)]_vars

(* An absent value was written as "00" into the first leaf, and the second
   leaf is the next one to write. *)
C7_Witness ==
    /\ req = VNone
    /\ ret.ok
    /\ wr = <<ZERO, ZERO>>
    /\ Len(flatten(tree)) = 2
    /\ sfields = <<flatten(tree)[2]>>

(* C8: once every leaf is written, the output is at least as long as the
   largest range end of the tree, and a text of exactly the width of the
   last leaf sits at that leaf's declared byte range. *)
C8_FieldsAtDeclaredRanges ==
    (req # NoReq /\ sfields = <<>> /\ ret.ok) =>
        /\ Len(wr) >= MaxEnd(tree)
        /\ (req.k = "str" /\ Len(req.s) = width(Written))
               => Slice(Written.range, wr) = req.s

(* C9: every write adds exactly the width of its leaf to the output, and a
   text longer than the width is cut to its first width bytes. *)
C9_ExactWidth ==
    [][(sfields # <<>>) =>
        /\ Len(wr') = Len(wr) + width(NextConf)
        /\ (req'.k = "str" /\ Len(req'.s) > width(NextConf))
               => wr' = wr \o SubSeq(req'.s, 1, width(NextConf))]_vars

(* "a1a" was written into a leaf of width 2 as "a1". *)
C9_Witness ==
    /\ req = VStr(<<97, 49, 97>>)
    /\ ret.ok
    /\ width(Written) = 2
    /\ wr = <<97, 49>>

----------------------------------------------------------------------------
(* Enum and self-describing destinations *)

(* The variants of the requested enum whose name is the trimmed text of the
   next leaf, byte for byte. *)
ExactVariants(ty) == {i \in 1..Len(ty.variants) : ty.variants[i].tag = NextText}

(* C11: an enum destination decoded from a readable leaf takes that one
   leaf; when the trimmed text equals the tag of a unit variant, the value
   is that variant; when it equals no tag of the enum, a tag that differs
   only in the case of its letters included, decoding fails. *)
C11_EnumDecode ==
    [][(req'.k = "enum" /\ NextLeafReadable) =>
        /\ fields' = Tail(fields)
        /\ \A i \in ExactVariants(req') :
               req'.variants[i].shape = "unit" => ret' = Ok([k |-> "enum", tag |-> NextText])
        /\ ExactVariants(req') = {} => ~ret'.ok]_vars

(* The padded field "ab " selected the variant ab of an enum. *)
C11_Witness ==
    /\ req.k = "enum"
    /\ ret = Ok([k |-> "enum", tag |-> <<97, 98>>])
    /\ Len(fields) < Len(into_iter(tree))
    /\ InBounds(Taken.conf.range, input)
    /\ Slice(Taken.conf.range, input) = <<97, 98, 32>>

(* C12, as stated: when the tag selects a variant that expects a wrapped
   value, positional fields or named fields, decoding fails with the
   Unsupported kind, and only the leaf of the tag has been taken. *)
C12_DataVariantUnsupported ==
    [][(/\ req'.k = "enum"
        /\ NextLeafReadable
        /\ \E i \in ExactVariants(req') : req'.variants[i].shape # "unit")
       => (ret' = Err("Unsupported") /\ fields' = Tail(fields))]_vars

(* C13: deserialize_any and deserialize_ignored_any return WontImplement
   whatever the tree and the buffer, and leave the cursor where it was. *)
C13_AnyRefused ==
    [][req'.k \in {"any", "ignored_any"} =>
        (ret' = Err("WontImplement") /\ fields' = fields)]_vars

(* A self-describing read was refused although a readable leaf was next,
   and the leaf is still the next one. *)
C13_Witness ==
    /\ req.k \in {"any", "ignored_any"}
    /\ ret = Err("WontImplement")
    /\ NextLeafReadable
    /\ Len(fields) < Len(into_iter(tree))

----------------------------------------------------------------------------
(* A Group as the next node of the cursor *)

NextIsGroup == fields # <<>> /\ Head(fields).t = "Seq"

(* The next node is a Group whose first child is a leaf with a slice of
   valid text in the buffer. *)
GroupLeafReadable ==
    /\ NextIsGroup
    /\ Head(fields).seq # <<>>
    /\ Head(Head(fields).seq).t = "Item"
    /\ InBounds(Head(Head(fields).seq).conf.range, input)
    /\ from_utf8_ok(Slice(Head(Head(fields).seq).conf.range, input))

(* The trimmed text of the first leaf of that Group. *)
GroupText == trim(Slice(Head(Head(fields).seq).conf.range, input))

(* C14, as stated: when the next node is a Group and the first element of
   the struct, tuple or sequence being decoded is a string or an integer,
   decoding fails with UnexpectedEndOfRecord. *)
C14_GroupWhereScalarFails ==
    [][(/\ NextIsGroup
        /\ \/ req'.k = "struct" /\ req'.fs[1].k \in {"str", "u8"}
           \/ req'.k = "seq" /\ req'.of.k \in {"str", "u8"})
       => ret' = UEOR]_vars

(* C15, as stated: an optional destination whose next node is a Group fails
   and leaves the Group on the cursor, whether it is decoded on its own or
   as the first element of a struct, tuple or sequence. *)
C15_OptionOverGroupFails ==
    [][(/\ NextIsGroup
        /\ \/ req'.k = "opt"
           \/ req'.k = "struct" /\ req'.fs[1].k = "opt"
           \/ req'.k = "seq" /\ req'.of.k = "opt")
       => (~ret'.ok /\ fields' = fields)]_vars

(* C15, amended: deserialize_option called on a cursor whose next node is a
   Group fails with UnexpectedEndOfRecord and leaves the Group on the
   cursor.  An optional that is an element of a struct, tuple or sequence
   is decoded from the leaves of the Group, which is taken from the cursor:
   it is absent when the first leaf of the Group is blank and present
   otherwise. *)
C15_OptionOverGroup ==
    [][NextIsGroup =>
        /\ req'.k = "opt" => (ret' = UEOR /\ fields' = fields)
        /\ (req' = TStruct(<<TOpt(TStr)>>) /\ GroupLeafReadable) =>
               /\ fields' = Tail(fields)
               /\ ret' = Ok([k |-> "struct",
                             fs |-> <<IF GroupText = <<>> THEN [k |-> "none"]
                                      ELSE [k |-> "some",
                                            v |-> [k |-> "str", s |-> GroupText]]>>])
        /\ (req'.k = "seq" /\ req'.of.k = "opt" /\ GroupLeafReadable /\ ret'.ok) =>
               /\ Len(fields') < Len(fields)
               /\ ret'.v.es # <<>>
               /\ (ret'.v.es[1].k = "none") <=> (GroupText = <<>>)]_vars

(* An array of optional pairs was decoded from two Groups: the first pair
   is absent because the first leaf of its Group is blank, the second is
   present. *)
C15_Witness ==
    /\ req = TSeq(TOpt(TStruct(<<TStr, TStr>>)))
    /\ ret.ok
    /\ Len(ret.v.es) = 2
    /\ ret.v.es[1].k = "none"
    /\ ret.v.es[2].k = "some"
    /\ fields = <<>>
    /\ \A i \in 1..Len(into_iter(tree)) : into_iter(tree)[i].t = "Seq"

----------------------------------------------------------------------------
(* Unit fields, an exhausted cursor, failures, strings *)

(* C16: a unit or unit-struct destination decoded from a cursor that has a
   node left succeeds and takes exactly that node, whatever its content:
   the field after it is the next one of the cursor. *)
C16_UnitSkipsOneField ==
    [][(req'.k = "unit" /\ fields # <<>>) =>
        (ret' = Ok([k |-> "unit"]) /\ fields' = Tail(fields))]_vars

(* A unit was decoded from a leaf that no other destination can read (its
   range ends beyond the buffer or its bytes are not UTF-8); the leaf after
   it is the next one of the cursor. *)
C16_Witness ==
    /\ req = TUnit
    /\ ret = Ok([k |-> "unit"])
    /\ Len(into_iter(tree)) = 2
    /\ fields = <<into_iter(tree)[2]>>
    /\ \/ ~InBounds(Taken.conf.range, input)
       \/ ~from_utf8_ok(Slice(Taken.conf.range, input))

(* C17, as stated: an optional, or a struct or tuple with at least one
   member, decoded from a cursor with no node left fails with
   UnexpectedEndOfRecord. *)
C17_ExhaustedCursorFails ==
    [][(fields = <<>> /\ req'.k \in {"opt", "struct"}) => ret' = UEOR]_vars

(* C18: when a member of a struct or tuple fails to decode, the call
   returns that member's error and no value, and the cursor stands right
   after the failing field: nothing after it has been read.  The failing
   member is an integer over a text that is not a number, as the first
   member or after a string. *)
C18_FailureAborts ==
    [][(req'.k = "struct" /\ NextLeafReadable) =>
        /\ (req'.fs[1] = TU8 /\ ~parse_u8(NextText).ok) =>
               (ret' = parse_u8(NextText) /\ fields' = Tail(fields))
        /\ (/\ Len(req'.fs) = 2 /\ req'.fs[1] = TStr /\ req'.fs[2] = TU8
            /\ Len(fields) >= 2 /\ fields[2].t = "Item"
            /\ InBounds(fields[2].conf.range, input)
            /\ ~parse_u8(trim(Slice(fields[2].conf.range, input))).ok) =>
               (~ret'.ok /\ ret'.e = "ParseIntError" /\ fields' = Tail(Tail(fields)))]_vars

(* A pair of an integer and a string failed on the integer; the leaf of the
   string, which is readable, is still on the cursor. *)
C18_Witness ==
    /\ req = TStruct(<<TU8, TStr>>)
    /\ ret = Err("ParseIntError")
    /\ Len(into_iter(tree)) = 2
    /\ fields = <<into_iter(tree)[2]>>
    /\ NextLeafReadable
    /\ Taken.t = "Item"
    /\ InBounds(Taken.conf.range, input)

AllWhitespace(s) == \A i \in 1..Len(s) : IsWhitespace(s[i])

(* C19: a string destination decoded from a readable leaf is the slice of
   the leaf without its leading and trailing whitespace and nothing else
   removed: a stretch of the slice that neither starts nor ends with
   whitespace, with only whitespace before and after it; it is empty when
   the slice is all whitespace. *)
C19_StringTrimmed ==
    [][(req'.k = "str" /\ NextLeafReadable) =>
        LET sl == Slice(Head(fields).conf.range, input) IN
        /\ ret'.ok
        /\ ret'.v.k = "str"
        /\ \E a \in 0..Len(sl), b \in 0..Len(sl) :
               /\ a <= b
               /\ ret'.v.s = SubSeq(sl, a + 1, b)
               /\ AllWhitespace(SubSeq(sl, 1, a))
               /\ AllWhitespace(SubSeq(sl, b + 1, Len(sl)))
               /\ a < b => (~IsWhitespace(sl[a + 1]) /\ ~IsWhitespace(sl[b]))]_vars

(* The field " 0a" was decoded to "0a": the blank is gone, the zero that
   pads the text is kept. *)
C19_Witness ==
    /\ req = TStr
    /\ ret = Ok([k |-> "str", s |-> <<48, 97>>])
    /\ Len(fields) < Len(into_iter(tree))
    /\ InBounds(Taken.conf.range, input)
    /\ Slice(Taken.conf.range, input) = <<32, 48, 97>>

----------------------------------------------------------------------------
(* The derive layer: #[derive(FixedWidth)] turns the fields of a struct,   *)
(* each with its #[fixed_width(..)] attributes, into the body of fields(). *)
(* A field is given as the Context read from it: its identifier, its skip  *)
(* marker and its metadata, every attribute value a text of bytes.         *)

(* A panic of the macro: the struct does not compile. *)
Panic(msg) == Err(msg)

(* str::split(".."): the pieces between the occurrences of "..", left to
   right; cur is the piece being collected. *)
RECURSIVE split(_, _)
split(s, cur) ==
    IF s = <<>> THEN <<cur>>
    ELSE IF Len(s) >= 2 /\ s[1] = DOT /\ s[2] = DOT
    THEN <<cur>> \o split(SubSeq(s, 3, Len(s)), <<>>)
    ELSE split(Tail(s), Append(cur, s[1]))

(* str::parse::<usize>: an optional '+', then one or more digits. *)
parse_usize(s) ==
    LET d == IF s # <<>> /\ s[1] = 43 THEN Tail(s) ELSE s IN
    IF d # <<>> /\ (\A i \in 1..Len(d) : IsDigit(d[i]))
    THEN Ok(DigitsValue(d))
    ELSE Err("ParseIntError")

(* split("..").map(str::parse).filter_map(Result::ok).collect() *)
range_parts(text) ==
    LET pieces == split(text, <<>>)
        parsed == [i \in 1..Len(pieces) |-> parse_usize(pieces[i])]
        good == SelectSeq(parsed, LAMBDA r : r.ok) IN
    [i \in 1..Len(good) |-> good[i].v]

to_lowercase(s) == [i \in 1..Len(s) |-> Lower(s[i])]

LEFT == <<108, 101, 102, 116>>
RIGHT == <<114, 105, 103, 104, 116>>

(* Context::field_name: the identifier of the field as a string. *)
field_name(ctx) == ctx.ident[1]

(* A filter that keeps the fields marked skip. *)
should_skip_marked(ctx) == ctx.skip

(* The predicate of the filter: true for the fields to keep. *)
should_skip(ctx) == ~ctx.skip

build_field_def(ctx) ==
    LET m == ctx.metadata IN
    IF m.range = <<>> THEN Panic("Must supply a byte range")
    ELSE IF Len(range_parts(m.range[1])) # 2 THEN Panic("Invalid range")
    ELSE IF m.pad_with # <<>> /\ Len(m.pad_with[1]) # 1 THEN Panic("pad_with must be a char")
    ELSE IF m.justify # <<>> /\ trim(to_lowercase(m.justify[1])) \notin {LEFT, RIGHT}
    THEN Panic("justify must be 'left' or 'right'")
    ELSE Ok([ident |-> ctx.ident[1],
             name |-> IF m.name # <<>> THEN m.name[1] ELSE field_name(ctx),
             pad_with |-> IF m.pad_with # <<>> THEN m.pad_with[1][1] ELSE SP,
             range |-> Range(range_parts(m.range[1])[1], range_parts(m.range[1])[2]),
             justify |-> IF m.justify # <<>> THEN m.justify[1] ELSE LEFT])

(* Justify::from(String), which FieldSet::justify applies to its argument. *)
JustifyFrom(text) == IF trim(to_lowercase(text)) = RIGHT THEN "Right" ELSE "Left"

(* The FieldSet the emitted expression evaluates to. *)
build_fixed_width_field(field_def) ==
    justify(pad_with(name(new_field(Range(field_def.range.start, field_def.range.end)),
                          field_def.name),
                     field_def.pad_with),
            JustifyFrom(field_def.justify))

(* The FieldSet that the derived fields() returns, or the panic. *)
impl_fixed_width(a) ==
    IF a.data # "Struct" THEN Panic("#[derive(FixedWidth)] can only be used with structs")
    ELSE IF \E i \in 1..Len(a.fields) : a.fields[i].ident = <<>>
    THEN Panic("struct has unnamed fields")
    ELSE LET kept == SelectSeq(a.fields, should_skip)
             defs == [i \in 1..Len(kept) |-> build_field_def(kept[i])]
             bad == {i \in 1..Len(kept) : ~defs[i].ok} IN
         IF bad # {} THEN defs[CHOOSE i \in bad : \A j \in bad : i <= j]
         ELSE Ok(field_seq([i \in 1..Len(kept) |-> build_fixed_width_field(defs[i].v)]))

(* The structs the model derives for. *)
FieldIdents == <<"name", "age", "height", "gender">>

(* The text "a..b" of a range attribute. *)
RangeAttr(a, b) == Decimal(a) \o <<DOT, DOT>> \o Decimal(b)

Metadata(r, p, j, n) == [range |-> r, pad_with |-> p, justify |-> j, name |-> n]

Context(id, sk, m) == [ident |-> <<id>>, skip |-> sk, metadata |-> m]

(* range = "9..11" with every combination of a skip marker, pad_with = "0",
   justify = "Right" and name = "height_cm". *)
PlainContexts(id) ==
    {Context(id, sk, Metadata(<<RangeAttr(9, 11)>>, p, j, n)) :
        sk \in BOOLEAN, p \in {<<>>, <<<<ZERO>>>>},
        j \in {<<>>, <<<<82, 105, 103, 104, 116>>>>}, n \in {<<>>, <<"height_cm">>}}

(* justify = "left" and "right"; then the attribute sets the macro rejects
   or reads in its own way: no range, range = "6", range = "x..0..6",
   pad_with = "00", justify = "up", and a skipped field without a range. *)
OtherContexts(id) ==
    {Context(id, FALSE, Metadata(<<RangeAttr(6, 9)>>, <<>>, <<LEFT>>, <<>>)),
     Context(id, FALSE, Metadata(<<RangeAttr(6, 9)>>, <<>>, <<RIGHT>>, <<>>)),
     Context(id, FALSE, Metadata(<<>>, <<>>, <<>>, <<>>)),
     Context(id, FALSE, Metadata(<<<<54>>>>, <<>>, <<>>, <<>>)),
     Context(id, FALSE, Metadata(<<<<120, DOT, DOT>> \o RangeAttr(0, 6)>>, <<>>, <<>>, <<>>)),
     Context(id, FALSE, Metadata(<<RangeAttr(0, 6)>>, <<<<ZERO, ZERO>>>>, <<>>, <<>>)),
     Context(id, FALSE, Metadata(<<RangeAttr(0, 6)>>, <<>>, <<<<117, 112>>>>, <<>>)),
     Context(id, TRUE, Metadata(<<>>, <<>>, <<>>, <<>>))}

Contexts(id) == PlainContexts(id) \cup OtherContexts(id)

(* The field lists of n named fields, the i-th called FieldIdents[i]. *)
RECURSIVE FieldLists(_)
FieldLists(n) ==
    IF n = 0 THEN {<<>>}
    ELSE {Append(fs, c) : fs \in FieldLists(n - 1), c \in Contexts(FieldIdents[n])}

(* Structs of named fields, a tuple struct and an enum. *)
DeriveInputs ==
    UNION {{[data |-> "Struct", fields |-> fs] : fs \in FieldLists(n)} : n \in 0..MaxMembers}
    \cup {[data |-> "Struct",
           fields |-> <<[ident |-> <<>>, skip |-> FALSE,
                         metadata |-> Metadata(<<RangeAttr(0, 6)>>, <<>>, <<>>, <<>>)]>>],
          [data |-> "Enum", fields |-> <<>>]}

InitDerive ==
    /\ ast \in DeriveInputs
    /\ input = <<>>
    /\ tree = field_seq(<<>>)
    /\ fields = <<>>
    /\ ret = Ok([k |-> "unit"])
    /\ req = NoReq
    /\ sfields = <<>>
    /\ wr = <<>>

ImplFixedWidth ==
    /\ req = NoReq
    /\ req' = [k |-> "derive"]
    /\ ret' = impl_fixed_width(ast)
    /\ UNCHANGED <<input, tree, fields, sfields, wr, ast>>

NextDerive == ImplFixedWidth

SpecDerive == InitDerive /\ [][NextDerive]_vars

(* The fields of the struct that carry no skip marker, in declaration order. *)
Kept(a) == SelectSeq(a.fields, LAMBDA c : ~c.skip)

(* The numbers a range attribute of the model may hold. *)
RangeNumbers == 0..11

RangeOf(c, a, b) == c.metadata.range = <<RangeAttr(a, b)>>

(* The attributes the documentation of the macro allows: range = "a..b",
   pad_with a single character, justify "left" or "right" in any case. *)
WellFormed(c) ==
    /\ \E a, b \in RangeNumbers : RangeOf(c, a, b)
    /\ c.metadata.pad_with = <<>> \/ Len(c.metadata.pad_with[1]) = 1
    /\ c.metadata.justify \in {<<>>, <<LEFT>>, <<RIGHT>>, <<<<82, 105, 103, 104, 116>>>>}

(* The leaf a user writes by hand for the field c with the range a..b:
   new_field(a..b).name(..).pad_with(..).justify(..). *)
HandBuilt(c, a, b) ==
    justify(pad_with(name(new_field(Range(a, b)),
                          IF c.metadata.name # <<>> THEN c.metadata.name[1] ELSE c.ident[1]),
                     IF c.metadata.pad_with # <<>> THEN c.metadata.pad_with[1][1] ELSE SP),
            IF c.metadata.justify \in {<<RIGHT>>, <<<<82, 105, 103, 104, 116>>>>}
            THEN "Right" ELSE "Left")

(* C20: for a struct of named fields whose kept fields carry well-formed
   attributes, the derived fields() is a Group with exactly one leaf per
   field not marked skip, in declaration order, and each leaf is the one
   built by hand from the field's range, its pad_with or a space, its
   justify or left, and its name or the identifier of the field. *)
C20_DeriveEmitsFieldTree ==
    [][(/\ req'.k = "derive"
        /\ ast.data = "Struct"
        /\ \A i \in 1..Len(ast.fields) : ast.fields[i].ident # <<>>
        /\ \A i \in 1..Len(Kept(ast)) : WellFormed(Kept(ast)[i])) =>
        /\ ret'.ok
        /\ ret'.v.t = "Seq"
        /\ Len(ret'.v.seq) = Len(Kept(ast))
        /\ \A i \in 1..Len(Kept(ast)) :
               \E a, b \in RangeNumbers :
                  /\ RangeOf(Kept(ast)[i], a, b)
                  /\ ret'.v.seq[i] = HandBuilt(Kept(ast)[i], a, b)]_vars

(* A struct whose first field is marked skip and whose second field, age,
   has range = "9..11", pad_with = "0" and justify = "Right" derived the
   tree of the one leaf 9..11 named "age", padded with '0', justified right. *)
C20_Witness ==
    /\ req.k = "derive"
    /\ Len(ast.fields) = 2
    /\ ast.fields[1].skip
    /\ ast.fields[2].metadata.name = <<>>
    /\ ret = Ok(field_seq(<<justify(pad_with(name(new_field(Range(9, 11)), "age"), ZERO),
                                    "Right")>>))

----------------------------------------------------------------------------
(* Composite elements over Groups, and sequences *)

(* Every leaf of the tree lies within the buffer. *)
AllInBounds == Len(input) >= MaxEnd(tree)

(* The string a leaf decodes to. *)
StrOf(n) == [k |-> "str", s |-> trim(Slice(n.conf.range, input))]

(* The pair (String, String) or the 1-tuple (String,) decoded from the
   first leaves of the Group g. *)
TupleOf(g, n) == [k |-> "struct", fs |-> [i \in 1..n |-> StrOf(g.seq[i])]]

(* C21: a composite element decoded from a Group reads only leaves of that
   Group, and the outer cursor moves on by exactly one node whatever the
   element consumed.  A pair followed by a string: a Group of two leaves
   gives the pair, and the string is the sibling of the Group; a Group of
   one leaf fails and does not borrow the sibling.  A sequence of 1-tuples:
   the first tuple is the first leaf of the Group, and the second tuple is
   read from the next sibling, never from a leftover leaf of the Group. *)
C21_GroupScopesElement ==
    [][(NextIsGroup /\ AllInBounds) =>
        /\ (/\ req' = TStruct(<<TStruct(<<TStr, TStr>>), TStr>>)
            /\ Len(fields) >= 2 /\ fields[2].t = "Item") =>
               IF Len(Head(fields).seq) >= 2
               THEN /\ ret' = Ok([k |-> "struct",
                                  fs |-> <<TupleOf(Head(fields), 2), StrOf(fields[2])>>])
                    /\ fields' = Tail(Tail(fields))
               ELSE /\ ~ret'.ok
                    /\ fields' = Tail(fields)
        /\ req' = TSeq(TStruct(<<TStr>>)) =>
               /\ ret'.ok
               /\ fields' = <<>>
               /\ Len(ret'.v.es) = Len(fields)
               /\ ret'.v.es[1] = TupleOf(Head(fields), 1)
               /\ (Len(fields) >= 2 /\ fields[2].t = "Item") =>
                      ret'.v.es[2] = [k |-> "struct", fs |-> <<StrOf(fields[2])>>]]_vars

(* A sequence of 1-tuples was decoded from a Group of two leaves holding
   "a" and "1" and a sibling leaf: the second tuple is the sibling, and the
   "1" of the Group was read by no element. *)
C21_Witness ==
    /\ req = TSeq(TStruct(<<TStr>>))
    /\ ret.ok
    /\ Len(into_iter(tree)) = 2
    /\ into_iter(tree)[1].t = "Seq"
    /\ Len(into_iter(tree)[1].seq) = 2
    /\ into_iter(tree)[2].t = "Item"
    /\ AllInBounds
    /\ StrOf(into_iter(tree)[1].seq[2]).s = <<49>>
    /\ ret.v.es = <<[k |-> "struct", fs |-> <<[k |-> "str", s |-> <<97>>]>>],
                    [k |-> "struct", fs |-> <<StrOf(into_iter(tree)[2])>>]>>
    /\ StrOf(into_iter(tree)[2]).s # <<49>>

(* The first leaf of the Group g is blank after trimming. *)
FirstBlank(g) == StrOf(g.seq[1]).s = <<>>

(* C22: a sequence of optional tuples of n strings decoded from a cursor
   of Groups: element i is absent when the first leaf of the i-th Group is
   blank and otherwise the tuple of the first n leaves of the i-th Group,
   whatever the elements before it were; the decode fails only when a
   Group that is not blank has fewer than n leaves. *)
C22_OptionalElementsByGroup ==
    [][(/\ req'.k = "seq" /\ req'.of.k = "opt" /\ req'.of.of.k = "struct"
        /\ fields # <<>>
        /\ \A i \in 1..Len(fields) : fields[i].t = "Seq"
        /\ AllInBounds) =>
        LET n == Len(req'.of.of.fs) IN
        IF \E i \in 1..Len(fields) : ~FirstBlank(fields[i]) /\ Len(fields[i].seq) < n
        THEN ~ret'.ok
        ELSE /\ fields' = <<>>
             /\ ret' = Ok([k |-> "seq",
                           es |-> [i \in 1..Len(fields) |->
                                      IF FirstBlank(fields[i]) THEN [k |-> "none"]
                                      ELSE [k |-> "some", v |-> TupleOf(fields[i], n)]]])]_vars

(* Three Groups of one leaf each, the middle one blank, decoded to a
   present, an absent and a present 1-tuple: the absent element did not
   shift the one after it. *)
C22_Witness ==
    /\ req = TSeq(TOpt(TStruct(<<TStr>>)))
    /\ ret.ok
    /\ Len(into_iter(tree)) = 3
    /\ \A i \in 1..3 : into_iter(tree)[i].t = "Seq"
    /\ AllInBounds
    /\ ret.v.es = <<[k |-> "some", v |-> TupleOf(into_iter(tree)[1], 1)],
                    [k |-> "none"],
                    [k |-> "some", v |-> TupleOf(into_iter(tree)[3], 1)]>>
    /\ ~FirstBlank(into_iter(tree)[3])

(* C23, as stated: a successful decode of a sequence has exactly one
   element per node that was on the cursor, and leaves the cursor
   exhausted. *)
C23_OneElementPerNode ==
    [][(req'.k = "seq" /\ ret'.ok) =>
        (Len(ret'.v.es) = Len(fields) /\ fields' = <<>>)]_vars

(* C23, amended: a successful decode of a sequence leaves the cursor
   exhausted and has at most one element per node.  Strings and optional
   strings give exactly one element per node, and over leaves that lie in
   the buffer the i-th string is the text of the i-th leaf.  Any element
   type gives exactly one element per node when every node is a Group.  A
   nested sequence that starts at a leaf reads from the cursor of the outer
   sequence and takes every remaining node, so the outer sequence has that
   one element. *)
C23_SeqTakesEveryNode ==
    [][req'.k = "seq" =>
        /\ ret'.ok => (fields' = <<>> /\ Len(ret'.v.es) <= Len(fields))
        /\ (ret'.ok /\ req'.of \in {TStr, TOpt(TStr)}) => Len(ret'.v.es) = Len(fields)
        /\ (ret'.ok /\ \A i \in 1..Len(fields) : fields[i].t = "Seq") =>
               Len(ret'.v.es) = Len(fields)
        /\ (AllInBounds /\ \A i \in 1..Len(fields) : fields[i].t = "Item") =>
               /\ req'.of = TStr =>
                      ret' = Ok([k |-> "seq", es |-> [i \in 1..Len(fields) |-> StrOf(fields[i])]])
               /\ (req'.of = TSeq(TStr) /\ fields # <<>>) =>
                      ret' = Ok([k |-> "seq",
                                 es |-> <<[k |-> "seq",
                                           es |-> [i \in 1..Len(fields) |->
                                                      StrOf(fields[i])]]>>])]_vars

(* A sequence of sequences of strings decoded from two leaves has one
   element, which holds the text of both leaves. *)
C23_Witness ==
    /\ req = TSeq(TSeq(TStr))
    /\ Len(into_iter(tree)) = 2
    /\ \A i \in 1..2 : into_iter(tree)[i].t = "Item"
    /\ AllInBounds
    /\ fields = <<>>
    /\ ret = Ok([k |-> "seq",
                 es |-> <<[k |-> "seq", es |-> <<StrOf(into_iter(tree)[1]),
                                                 StrOf(into_iter(tree)[2])>>]>>])

====
